---- MODULE Spec2Model ----
(***************************************************************************)
(* Shamir secret sharing over Z/pZ with nested (prefix-addressed) pools:   *)
(* field arithmetic (shamir/mod_util.py), shares and their common prefix   *)
(* (shamir/share.py), and the engine generate_pool / extend_pool /         *)
(* recover_secret with its specification tree (shamir/shamir.py).          *)
(***************************************************************************)
EXTENDS Integers, Sequences, FiniteSets, TLC

VARIABLES
    p,        \* Shamir.p, the modulus the engine was constructed with
    secret,   \* the Share last handed to generate_pool
    spec,     \* the ShamirSpec last handed to generate_pool
    pool,     \* outcome of the last generate_pool call
    ext,      \* outcome of the last extend_pool call on shares of the pool
    ext_shares, \* the shares that call was given
    call,     \* the last call: its name and its arguments
    ret,      \* outcome of the last call
    log,      \* the generate_pool calls of a session on one engine, in order
    frame     \* the locals of the call in progress and the steps it has taken

vars == <<p, secret, spec, pool, ext, ext_shares, call, ret, log, frame>>

----------------------------------------------------------------------------
(* Bounds of the explored inputs.                                          *)

MaxCoeffs == 3       \* longest coefficient list given to eval_poly_mod
MaxPoints == 3       \* longest point list given to lagrange_interpolate
MaxShares == 4       \* largest share count of a flat specification
MaxThreshold == 3    \* largest threshold of a specification
MaxNested == 2       \* largest threshold and count inside a nested specification
MaxColl == 3         \* longest hand-built share collection
MaxRand == 2         \* rand_indices below the modulus; share counts from it on
MaxCalls == 3        \* most generate_pool calls of one session

Primes == {3, 5, 7}        \* moduli the engine is constructed with
SharePrimes == {5}         \* moduli of the runs on hand-built shares
\* paths of hand-built shares: the root, two children, their children,
\* two grandchildren and a child of negative index
HandPaths ==
    {<<>>, <<1>>, <<2>>, <<1, 1>>, <<1, 2>>, <<2, 1>>, <<2, 2>>, <<1, 2, 1>>, <<1, 2, 2>>,
     <<-1>>}
ShareValues == {0, 1}      \* values of hand-built shares
FreshIndices == {3}        \* indices no hand-built share carries
FieldPrimes == {3, 5}      \* moduli of the exhaustive field-arithmetic runs
TestPrime == 11            \* modulus of the documented polynomial
TestCoeffs == <<2, 5, 3>>  \* f(x) = 2 + 5x + 3x^2

----------------------------------------------------------------------------
(* Outcomes of a call: a returned value or a raised exception.             *)

None == [none |-> TRUE]
Return(v) == [kind |-> "return", val |-> v]
Raise(e) == [kind |-> "raise", val |-> e]
NoCall == [op |-> "none"]
NoOutcome == [kind |-> "nothing", val |-> None]
NoFrame == [pc |-> "idle"]

Returned(o) == o.kind = "return"
Raised(o, e) == o.kind = "raise" /\ o.val = e

----------------------------------------------------------------------------
(* Helpers on sequences and integers.                                      *)

SeqRange(s) == {s[i] : i \in 1..Len(s)}

\* all sequences over S of length 0..n
RECURSIVE SeqsUpTo(_, _)
SeqsUpTo(S, n) ==
    IF n = 0 THEN {<<>>}
    ELSE LET shorter == SeqsUpTo(S, n - 1)
         IN  shorter \cup {Append(s, e) : s \in {t \in shorter : Len(t) = n - 1}, e \in S}

SeqsOfLen(S, n) == {s \in SeqsUpTo(S, n) : Len(s) = n}

\* Python slice s[:n] for 0 <= n
Take(s, n) == SubSeq(s, 1, IF n < Len(s) THEN n ELSE Len(s))

\* Python list.pop(i) leaves the list without its i-th element (1-based here)
RemoveAt(s, i) == SubSeq(s, 1, i - 1) \o SubSeq(s, i + 1, Len(s))

Min(a, b) == IF a < b THEN a ELSE b

----------------------------------------------------------------------------
(* shamir/mod_util.py                                                      *)

\* Horner loop of eval_poly_mod over reversed(poly_coeffs): i runs from the
\* last coefficient down to the first.
RECURSIVE eval_poly_loop(_, _, _, _, _)
eval_poly_loop(poly_coeffs, x, modulus, i, accum) ==
    IF i = 0 THEN accum
    ELSE eval_poly_loop(poly_coeffs, x, modulus, i - 1,
                        (accum * x + poly_coeffs[i]) % modulus)

\* eval_poly_mod without reversed(): the coefficients taken in decreasing
\* order of exponent
eval_poly_mod_forward(poly_coeffs, x, modulus) ==
    eval_poly_loop([i \in 1..Len(poly_coeffs) |-> poly_coeffs[Len(poly_coeffs) + 1 - i]],
                   x, modulus, Len(poly_coeffs), 0)

eval_poly_mod(poly_coeffs, x, modulus) ==
    eval_poly_loop(poly_coeffs, x, modulus, Len(poly_coeffs), 0)

\* pow(a, -1, modulus): the inverse exists iff some b in [0, modulus) has
\* a*b = 1 (mod modulus); otherwise Python raises ValueError.
Invertible(a, modulus) == \E b \in 0..(modulus - 1) : (a * b) % modulus = 1 % modulus
\* pow(a, 1, modulus) in place of pow(a, -1, modulus)
pow_inv_plus_one(a, modulus) == a % modulus

pow_inv(a, modulus) == CHOOSE b \in 0..(modulus - 1) : (a * b) % modulus = 1 % modulus

\* the inner loop passing over a difference that has no inverse
RECURSIVE lagrange_term_skipping(_, _, _, _, _, _)
lagrange_term_skipping(x, cur, others, modulus, j, term) ==
    IF j > Len(others) THEN Return(term)
    ELSE IF ~Invertible(cur - others[j], modulus)
    THEN lagrange_term_skipping(x, cur, others, modulus, j + 1, term)
    ELSE lagrange_term_skipping(x, cur, others, modulus, j + 1,
             (term * (x - others[j]) * pow_inv(cur - others[j], modulus)) % modulus)

\* inner loop "for o in others" of lagrange_interpolate, from position j on
RECURSIVE lagrange_term(_, _, _, _, _, _)
lagrange_term(x, cur, others, modulus, j, term) ==
    IF j > Len(others) THEN Return(term)
    ELSE IF ~Invertible(cur - others[j], modulus) THEN Raise("ValueError")
    ELSE lagrange_term(x, cur, others, modulus, j + 1,
                       (term * (x - others[j]) * pow_inv(cur - others[j], modulus)) % modulus)

\* outer loop "for i in range(k)" of lagrange_interpolate, from index i on
RECURSIVE lagrange_sum(_, _, _, _, _, _)
lagrange_sum(x, x_s, y_s, modulus, i, accum) ==
    IF i > Len(x_s) THEN Return(accum % modulus)
    ELSE LET t == lagrange_term(x, x_s[i], RemoveAt(x_s, i), modulus, 1, y_s[i])
         IN  IF Returned(t)
             THEN lagrange_sum(x, x_s, y_s, modulus, i + 1, accum + t.val)
             ELSE t

\* the first occurrences of the x-coordinates of x_s, as positions
FirstOccurrences(x_s) == {i \in 1..Len(x_s) : \A j \in 1..(i - 1) : x_s[j] # x_s[i]}

\* lagrange_interpolate dropping repeated x-coordinates instead of raising
lagrange_interpolate_dedup(x, x_s, y_s, modulus) ==
    LET keep == FirstOccurrences(x_s)
        pos == [n \in 1..Cardinality(keep) |->
                  CHOOSE i \in keep : Cardinality({j \in keep : j < i}) = n - 1]
    IN  lagrange_sum(x, [n \in 1..Cardinality(keep) |-> x_s[pos[n]]],
                     [n \in 1..Cardinality(keep) |-> y_s[pos[n]]], modulus, 1, 0)

lagrange_interpolate(x, x_s, y_s, modulus) ==
    IF Len(x_s) # Cardinality(SeqRange(x_s))
    THEN Raise("ValueError")
    ELSE lagrange_sum(x, x_s, y_s, modulus, 1, 0)

----------------------------------------------------------------------------
(* shamir/share.py                                                         *)

Share(value, prefix) == [value |-> value, prefix |-> prefix]
IsShare(v) == DOMAIN v = {"value", "prefix"}

\* Share.x(): the last element of the prefix, None for the empty prefix
share_x(sh) == IF Len(sh.prefix) > 0 THEN sh.prefix[Len(sh.prefix)] ELSE None

\* ShareFactory._common_prefix_length: the first position where p1 and p2
\* differ (0-based, so the number of equal leading elements), else idx_max
\* _common_prefix_length counting the first differing position itself
common_prefix_length_off_by_one(p1, p2) ==
    LET idx_max == Min(Len(p1), Len(p2))
        diff == {idx \in 1..idx_max : p1[idx] # p2[idx]}
    IN  IF diff # {}
        THEN CHOOSE idx \in diff : \A other \in diff : idx <= other
        ELSE idx_max

common_prefix_length(p1, p2) ==
    LET idx_max == Min(Len(p1), Len(p2))
        diff == {idx \in 1..idx_max : p1[idx] # p2[idx]}
    IN  IF diff # {}
        THEN (CHOOSE idx \in diff : \A other \in diff : idx <= other) - 1
        ELSE idx_max

\* ShareFactory._common_prefix
common_prefix_paths(p1, p2) == Take(p1, common_prefix_length(p1, p2))

\* loop "for sh in shares[1:]" of ShareFactory.common_prefix
RECURSIVE common_prefix_loop(_, _, _)
common_prefix_loop(shares, i, prefix) ==
    IF i > Len(shares) THEN prefix
    ELSE common_prefix_loop(shares, i + 1, common_prefix_paths(prefix, shares[i].prefix))

\* common_prefix stopping after the second share
common_prefix_of_first_two(shares) ==
    IF Len(shares) >= 1
    THEN Return(common_prefix_loop(Take(shares, 2), 2, shares[1].prefix))
    ELSE Raise("ValueError")

common_prefix(shares) ==
    IF Len(shares) >= 1
    THEN Return(common_prefix_loop(shares, 2, shares[1].prefix))
    ELSE Raise("ValueError")

----------------------------------------------------------------------------
(* shamir/shamir.py: _combine_shares and recover_secret                    *)

\* inner loop "for i in range(len_common_prefix, len(sh.prefix))": the keys
\* of share_pool in insertion order
RECURSIVE add_prefixes(_, _, _)
add_prefixes(keys, prefix, i) ==
    IF i >= Len(prefix) THEN keys
    ELSE LET pr == Take(prefix, i)
         IN  add_prefixes(IF pr \in SeqRange(keys) THEN keys ELSE Append(keys, pr),
                          prefix, i + 1)

RECURSIVE pool_keys(_, _, _, _)
pool_keys(shares, j, len_common_prefix, keys) ==
    IF j > Len(shares) THEN keys
    ELSE pool_keys(shares, j + 1, len_common_prefix,
                   add_prefixes(keys, shares[j].prefix, len_common_prefix))

\* share_pool after the grouping loop: under each key the given shares
\* whose parent prefix it is, in the order given
initial_share_pool(shares, keys) ==
    [pr \in SeqRange(keys) |->
        LET IsChild(sh) == Take(sh.prefix, Len(sh.prefix) - 1) = pr
        IN  SelectSeq(shares, IsChild)]

\* all_prefixes.sort(key=len, reverse=True): stable, longest first
RECURSIVE sort_by_length(_, _)
sort_by_length(keys, len) ==
    IF len < 0 THEN <<>>
    ELSE LET HasLen(pr) == Len(pr) = len
         IN  SelectSeq(keys, HasLen) \o sort_by_length(keys, len - 1)

MaxLength(keys) ==
    IF keys = <<>> THEN 0
    ELSE CHOOSE n \in {Len(keys[i]) : i \in 1..Len(keys)} :
            \A i \in 1..Len(keys) : Len(keys[i]) <= n

\* loop "for pr in all_prefixes" of _combine_shares, from position j on;
\* result is None when the loop ends without reaching the common prefix
RECURSIVE merge_loop(_, _, _, _, _)
merge_loop(all_prefixes, j, share_pool, cp, modulus) ==
    IF j > Len(all_prefixes) THEN Return(None)
    ELSE LET pr == all_prefixes[j]
             xs == [i \in 1..Len(share_pool[pr]) |-> share_x(share_pool[pr][i])]
             ys == [i \in 1..Len(share_pool[pr]) |-> share_pool[pr][i].value]
             merged_val == lagrange_interpolate(0, xs, ys, modulus)
         IN  IF ~Returned(merged_val) THEN merged_val
             ELSE LET merged == Share(merged_val.val, pr)
                  IN  IF pr = cp THEN Return(merged)
                      ELSE LET new_pr == Take(pr, Len(pr) - 1)
                           IN  merge_loop(all_prefixes, j + 1,
                                   [share_pool EXCEPT ![new_pr] = Append(@, merged)],
                                   cp, modulus)

\* _combine_shares merging always up to the root prefix ()
combine_shares_to_root(shares, modulus) ==
    LET cp == common_prefix(shares)
    IN  IF ~Returned(cp) THEN cp
        ELSE LET at_prefix == {i \in 1..Len(shares) : shares[i].prefix = <<>>}
             IN  IF at_prefix # {}
                 THEN Return(shares[CHOOSE i \in at_prefix : \A k \in at_prefix : i <= k])
                 ELSE LET keys == pool_keys(shares, 1, 0, <<>>)
                          all_prefixes == sort_by_length(keys, MaxLength(keys))
                      IN  merge_loop(all_prefixes, 1, initial_share_pool(shares, keys),
                                     <<>>, modulus)

\* _combine_shares returning a share at the common prefix only when every
\* given share is there, and merging the deeper ones otherwise
combine_shares_merging_deeper(shares, modulus) ==
    LET cp == common_prefix(shares)
    IN  IF ~Returned(cp) THEN cp
        ELSE LET Deeper(sh) == sh.prefix # cp.val
                 deeper == SelectSeq(shares, Deeper)
             IN  IF deeper = <<>> THEN Return(shares[1])
                 ELSE LET keys == pool_keys(deeper, 1, Len(cp.val), <<>>)
                          all_prefixes == sort_by_length(keys, MaxLength(keys))
                      IN  merge_loop(all_prefixes, 1, initial_share_pool(deeper, keys),
                                     cp.val, modulus)

combine_shares(shares, modulus) ==
    LET cp == common_prefix(shares)
    IN  IF ~Returned(cp) THEN cp
        ELSE LET at_prefix == {i \in 1..Len(shares) : shares[i].prefix = cp.val}
             IN  IF at_prefix # {}
                 THEN Return(shares[CHOOSE i \in at_prefix : \A k \in at_prefix : i <= k])
                 ELSE LET keys == pool_keys(shares, 1, Len(cp.val), <<>>)
                          all_prefixes == sort_by_length(keys, MaxLength(keys))
                      IN  merge_loop(all_prefixes, 1, initial_share_pool(shares, keys),
                                     cp.val, modulus)

\* recover_secret handing back the first given share
recover_secret_first(shares, modulus) ==
    IF Len(shares) >= 1 THEN Return(shares[1]) ELSE Raise("ValueError")

recover_secret(shares, modulus) == combine_shares(shares, modulus)

----------------------------------------------------------------------------
(* shamir/shamir.py: extend_pool                                           *)

\* the extending value: an int, a tuple of ints, or anything else
IntTarget(n) == [type |-> "int", n |-> n]
TupleTarget(t) == [type |-> "tuple", t |-> t]
OtherTarget == [type |-> "other"]

\* the grouping loop taking every share with a path longer than prefix
RECURSIVE active_heads_any_prefix(_, _, _, _)
active_heads_any_prefix(shares, j, prefix, heads) ==
    IF j > Len(shares) THEN heads
    ELSE LET pth == shares[j].prefix
             head == Take(pth, Len(prefix) + 1)
         IN  active_heads_any_prefix(shares, j + 1, prefix,
                 IF Len(pth) > Len(prefix) /\ head \notin SeqRange(heads)
                 THEN Append(heads, head) ELSE heads)

\* keys of active_shares in insertion order: the heads prefix + (c,) of the
\* shares strictly below prefix
RECURSIVE active_heads(_, _, _, _)
active_heads(shares, j, prefix, heads) ==
    IF j > Len(shares) THEN heads
    ELSE LET pth == shares[j].prefix
             head == Take(pth, Len(prefix) + 1)
         IN  active_heads(shares, j + 1, prefix,
                 IF Len(pth) > Len(prefix) /\ Take(pth, Len(prefix)) = prefix
                    /\ head \notin SeqRange(heads)
                 THEN Append(heads, head) ELSE heads)

active_group(shares, prefix, head) ==
    LET Below(sh) == /\ Len(sh.prefix) > Len(prefix)
                     /\ Take(sh.prefix, Len(prefix) + 1) = head
    IN  SelectSeq(shares, Below)

\* loop "for p in active_shares": peers.append(self._combine_shares(...));
\* the first failing combination propagates
RECURSIVE collect_peers(_, _, _, _, _, _)
collect_peers(shares, prefix, heads, j, peers, modulus) ==
    IF j > Len(heads) THEN Return(peers)
    ELSE LET peer == combine_shares(active_group(shares, prefix, heads[j]), modulus)
         IN  IF ~Returned(peer) THEN peer
             ELSE collect_peers(shares, prefix, heads, j + 1,
                                Append(peers, peer.val), modulus)

\* extend_pool without the "specified prefix has no peers" guard
extend_at_peerless(prefix, x, shares, modulus) ==
    IF x % modulus = 0 \/ \E i \in 1..Len(prefix) : prefix[i] % modulus = 0
    THEN Raise("ValueError")
    ELSE IF Len(shares) = 0 THEN Raise("ValueError")
    ELSE LET peers == collect_peers(shares, prefix,
                          active_heads(shares, 1, prefix, <<>>), 1, <<>>, modulus)
         IN  IF ~Returned(peers) THEN peers
             ELSE LET new_value == lagrange_interpolate(x,
                          [i \in 1..Len(peers.val) |-> share_x(peers.val[i])],
                          [i \in 1..Len(peers.val) |-> peers.val[i].value],
                          modulus)
                  IN  IF ~Returned(new_value) THEN new_value
                      ELSE Return(Share(new_value.val, Append(prefix, x)))

\* extend_pool interpolating at 0, as _combine_shares does, instead of at x
extend_at_zero(prefix, x, shares, modulus) ==
    IF x % modulus = 0 \/ \E i \in 1..Len(prefix) : prefix[i] % modulus = 0
    THEN Raise("ValueError")
    ELSE IF Len(shares) = 0 THEN Raise("ValueError")
    ELSE LET peers == collect_peers(shares, prefix,
                          active_heads(shares, 1, prefix, <<>>), 1, <<>>, modulus)
         IN  IF ~Returned(peers) THEN peers
             ELSE IF Len(peers.val) = 0 THEN Raise("ValueError")
             ELSE LET new_value == lagrange_interpolate(0,
                          [i \in 1..Len(peers.val) |-> share_x(peers.val[i])],
                          [i \in 1..Len(peers.val) |-> peers.val[i].value],
                          modulus)
                  IN  IF ~Returned(new_value) THEN new_value
                      ELSE Return(Share(new_value.val, Append(prefix, x)))

extend_at(prefix, x, shares, modulus) ==
    IF x % modulus = 0 \/ \E i \in 1..Len(prefix) : prefix[i] % modulus = 0
    THEN Raise("ValueError")
    ELSE IF Len(shares) = 0 THEN Raise("ValueError")
    ELSE LET peers == collect_peers(shares, prefix,
                          active_heads(shares, 1, prefix, <<>>), 1, <<>>, modulus)
         IN  IF ~Returned(peers) THEN peers
             ELSE IF Len(peers.val) = 0 THEN Raise("ValueError")
             ELSE LET new_value == lagrange_interpolate(x,
                          [i \in 1..Len(peers.val) |-> share_x(peers.val[i])],
                          [i \in 1..Len(peers.val) |-> peers.val[i].value],
                          modulus)
                  IN  IF ~Returned(new_value) THEN new_value
                      ELSE Return(Share(new_value.val, Append(prefix, x)))

extend_pool(val, shares, modulus) ==
    IF val.type = "int" THEN extend_at(<<>>, val.n, shares, modulus)
    ELSE IF val.type = "tuple"
    THEN IF val.t = <<>> THEN Return(None)
         ELSE extend_at(Take(val.t, Len(val.t) - 1), val.t[Len(val.t)], shares, modulus)
    ELSE Raise("ValueError")

----------------------------------------------------------------------------
(* shamir/shamir.py: ShamirSpec                                            *)

PyInt(n) == [none |-> FALSE, int |-> n]

IntShares(n) == [type |-> "int", n |-> n]
TupleShares(entries) == [type |-> "tuple", entries |-> entries]
IntEntry(n) == [type |-> "int", n |-> n]
SubEntry(n, sub) == [type |-> "sub", n |-> n, spec |-> sub]
ShamirSpec(threshold, shares) == [threshold |-> threshold, shares |-> shares]

\* ShamirSpec.num_shares: the count itself for an int; for a tuple the loop
\* accumulates and the method ends without a return statement
num_shares(sp) ==
    IF sp.shares.type = "int" THEN PyInt(sp.shares.n) ELSE None

\* ShamirSpec.validate; returns None or raises
RECURSIVE validate(_)
validate(sp) ==
    IF sp.threshold < 1 THEN Raise("ValueError")
    ELSE IF sp.shares.type = "int" /\ sp.shares.n < 1 THEN Raise("ValueError")
    ELSE IF sp.shares.type = "tuple"
            /\ \E i \in 1..Len(sp.shares.entries) : sp.shares.entries[i].n < 1
    THEN Raise("ValueError")
    ELSE IF num_shares(sp).none THEN Raise("TypeError")
    ELSE IF num_shares(sp).int < sp.threshold THEN Raise("ValueError")
    ELSE IF sp.shares.type = "int" THEN Return(None)
    ELSE LET subs == {i \in 1..Len(sp.shares.entries) :
                         /\ sp.shares.entries[i].type = "sub"
                         /\ ~Returned(validate(sp.shares.entries[i].spec))}
         IN  IF subs = {} THEN Return(None)
             ELSE validate(sp.shares.entries[CHOOSE i \in subs : \A k \in subs : i <= k].spec)

----------------------------------------------------------------------------
(* shamir/shamir.py: generate_pool                                         *)

\* _rec_generate_pool with the secret as the leading instead of the
\* constant coefficient
rec_generate_pool_secret_last(sec, sp, rand_coeffs, indices, modulus) ==
    IF num_shares(sp).none THEN Raise("TypeError")
    ELSE IF num_shares(sp).int >= modulus THEN Raise("ValueError")
    ELSE LET coeffs == rand_coeffs \o <<sec.value % modulus>>
         IN  Return([i \in 1..Len(indices) |->
                       Share(eval_poly_mod(coeffs, indices[i], modulus),
                             Append(sec.prefix, indices[i]))])

\* _rec_generate_pool for the coefficients drawn from rng(0) and the chosen
\* indices.  num_shares() is None for every tuple of entries, so the
\* comparison with self.p raises TypeError there and steps 1-4 are reached
\* with an int share count only.
rec_generate_pool(sec, sp, rand_coeffs, indices, modulus) ==
    IF num_shares(sp).none THEN Raise("TypeError")
    ELSE IF num_shares(sp).int >= modulus THEN Raise("ValueError")
    ELSE LET coeffs == <<sec.value % modulus>> \o rand_coeffs
         IN  Return([i \in 1..Len(indices) |->
                       Share(eval_poly_mod(coeffs, indices[i], modulus),
                             Append(sec.prefix, indices[i]))])

\* range(num_shares) in place of range(1, num_shares + 1)
sequential_indices_from_zero(sp) ==
    IF num_shares(sp).none THEN <<>> ELSE [i \in 1..num_shares(sp).int |-> i - 1]

\* indices = range(1, num_shares + 1) when rand_indices is None
sequential_indices(sp) ==
    IF num_shares(sp).none THEN <<>> ELSE [i \in 1..num_shares(sp).int |-> i]

generate_pool(sec, sp, rand_coeffs, modulus) ==
    IF ~IsShare(sec) THEN Raise("ValueError")
    ELSE IF ~Returned(validate(sp)) THEN validate(sp)
    ELSE rec_generate_pool(sec, sp, rand_coeffs, sequential_indices(sp), modulus)

----------------------------------------------------------------------------
(* shamir/shamir.py: the random sources of generate_pool                   *)

\* random.Random is a deterministic generator: its outputs are a function
\* of the seed and of the number of draws made so far.  A linear
\* congruential generator on 0..15 stands for it: Random(v) sets the state
\* from v, every draw advances the state and delivers it.
rng_seeded(v) == (3 * v + 1) % 16
rng_advance(s) == (5 * s + 3) % 16

\* r = random.Random(seed); the i-th value r.random() delivers (0-based)
RECURSIVE master_output(_, _)
master_output(seed, i) ==
    IF i = 0 THEN rng_advance(rng_seeded(seed))
    ELSE rng_advance(master_output(seed, i - 1))

\* rng(idx) with a seed: rands is created empty by every call of
\* generate_pool and filled in order, so rands[idx] is always
\* Random(the (idx+1)-th value of r.random())
rng_thread(seed, idx) == rng_seeded(master_output(seed, idx))

\* [g.randrange(modulus) for _ in range(count)] for a generator in state s
RECURSIVE randrange_draws(_, _, _)
randrange_draws(s, count, modulus) ==
    IF count <= 0 THEN <<>>
    ELSE <<rng_advance(s) % modulus>>
         \o randrange_draws(rng_advance(s), count - 1, modulus)

\* selection loop of random.sample on a list: the j-th remaining element is
\* taken and the last remaining one moved into its place
RECURSIVE sample_loop(_, _, _, _)
sample_loop(population, s, i, k) ==
    IF i = k THEN <<>>
    ELSE LET n == Len(population)
             j == rng_advance(s) % (n - i)
         IN  <<population[j + 1]>>
             \o sample_loop([population EXCEPT ![j + 1] = population[n - i]],
                            rng_advance(s), i + 1, k)

\* g.sample(range(1, rand_indices + 1), k=k) for a generator in state s
sample(s, rand_indices, k) ==
    LET n == IF rand_indices > 0 THEN rand_indices ELSE 0
    IN  IF ~(0 <= k /\ k <= n) THEN Raise("ValueError")
        ELSE Return(sample_loop([i \in 1..n |-> i], s, 0, k))

\* the sequences without repetition of k elements of 1..n
Injections(n, k) ==
    {s \in SeqsOfLen(1..n, k) : Cardinality(SeqRange(s)) = k}

\* the coefficients drawn from the system's randomness whatever the seed
coeff_draws_unseeded(seed, count, modulus) ==
    SeqsOfLen(0..(modulus - 1), IF count > 0 THEN count ELSE 0)

\* what coeff_rng = rng(0) can deliver for count draws of randrange(modulus):
\* anything from secrets.SystemRandom(), one list for a seed
coeff_draws(seed, count, modulus) ==
    IF seed.none
    THEN SeqsOfLen(0..(modulus - 1), IF count > 0 THEN count ELSE 0)
    ELSE {randrange_draws(rng_thread(seed.int, 0), count, modulus)}

\* the indices drawn with replacement
index_draws_with_replacement(sp, rand_indices, seed) ==
    LET n == IF num_shares(sp).none THEN 0 ELSE num_shares(sp).int
    IN  IF rand_indices.none THEN {Return(sequential_indices(sp))}
        ELSE IF ~(0 <= n /\ n <= rand_indices.int) THEN {Raise("ValueError")}
        ELSE {Return(s) : s \in SeqsOfLen(1..rand_indices.int, n)}

\* step 2 of _rec_generate_pool: the outcomes of choosing n indices
index_draws(sp, rand_indices, seed) ==
    LET n == IF num_shares(sp).none THEN 0 ELSE num_shares(sp).int
    IN  IF rand_indices.none THEN {Return(sequential_indices(sp))}
        ELSE IF ~(0 <= n /\ n <= rand_indices.int) THEN {Raise("ValueError")}
        ELSE IF seed.none THEN {Return(s) : s \in Injections(rand_indices.int, n)}
        ELSE {sample(rng_thread(seed.int, 1), rand_indices.int, n)}

\* generate_pool for the coefficients rng(0) delivered and the outcome of
\* the choice of indices
generate_pool_rand(sec, sp, rand_coeffs, chosen, modulus) ==
    IF ~IsShare(sec) THEN Raise("ValueError")
    ELSE IF ~Returned(validate(sp)) THEN validate(sp)
    ELSE LET shares == rec_generate_pool(sec, sp, rand_coeffs,
                           IF Returned(chosen) THEN chosen.val ELSE <<>>, modulus)
         IN  IF Returned(shares) /\ ~Returned(chosen) THEN chosen ELSE shares

----------------------------------------------------------------------------
(* Field-arithmetic calls.                                                 *)

FieldModuli == FieldPrimes \cup {TestPrime}

\* coefficient lists: every list over [0, m) for the small moduli, the
\* documented polynomial for the test modulus
CoeffLists(m) ==
    IF m = TestPrime THEN {TestCoeffs, <<>>}
    ELSE SeqsUpTo(0..(m - 1), MaxCoeffs)

\* evaluation points, among them negative ones and ones >= m
EvalPoints(m) == (-m)..(m + 1)

InitIdle ==
    /\ secret = None
    /\ spec = None
    /\ pool = NoOutcome
    /\ ext = NoOutcome
    /\ ext_shares = <<>>
    /\ call = NoCall
    /\ ret = NoOutcome
    /\ log = <<>>
    /\ frame = NoFrame

\* each behaviour is one caller's session: a call is made when none is pending
Idle == call = NoCall

InitField ==
    /\ p = TestPrime
    /\ InitIdle

EvalPolyMod ==
    /\ Idle
    /\ \E m \in FieldModuli :
      \E cs \in CoeffLists(m), x \in EvalPoints(m) :
        /\ call' = [op |-> "eval_poly_mod", coeffs |-> cs, x |-> x, modulus |-> m]
        /\ ret' = Return(eval_poly_mod(cs, x, m))
        /\ UNCHANGED <<p, secret, spec, pool, ext, ext_shares, log, frame>>

\* interpolation through points of a known polynomial, as in
\* tests/mod_util_tests.py: ys are the polynomial's values at xs
InterpolatePoly ==
    /\ Idle
    /\ \E m \in FieldModuli :
      \E cs \in {c \in CoeffLists(m) : Len(c) >= 1} :
        \E xs \in SeqsOfLen(0..(m - 1), Len(cs)), x \in 0..(m - 1) :
          /\ Len(xs) = Cardinality(SeqRange(xs))
          /\ LET ys == [i \in 1..Len(xs) |-> eval_poly_mod(cs, xs[i], m)]
             IN  /\ call' = [op |-> "interpolate_poly", coeffs |-> cs, x |-> x,
                             x_s |-> xs, y_s |-> ys, modulus |-> m]
                 /\ ret' = lagrange_interpolate(x, xs, ys, m)
          /\ UNCHANGED <<p, secret, spec, pool, ext, ext_shares, log, frame>>

\* the smallest modulus takes point lists of the full length, the others one less
PointsBound(m) == IF m = 3 THEN MaxPoints ELSE MaxPoints - 1

\* interpolation through arbitrary points, duplicates and out-of-range
\* x-coordinates included
LagrangeInterpolate ==
    /\ Idle
    /\ \E m \in FieldPrimes :
      \E n \in 0..PointsBound(m) :
        \E xs \in SeqsOfLen(0..m, n), ys \in SeqsOfLen(0..(m - 1), n), x \in 0..m :
          /\ call' = [op |-> "lagrange_interpolate", x |-> x,
                      x_s |-> xs, y_s |-> ys, modulus |-> m]
          /\ ret' = lagrange_interpolate(x, xs, ys, m)
          /\ UNCHANGED <<p, secret, spec, pool, ext, ext_shares, log, frame>>

\* interpolation through points of which two have x-coordinates that
\* differ by the modulus: distinct integers, the same field element
LagrangeCongruent ==
    /\ Idle
    /\ \E m \in FieldPrimes :
      \E n \in 2..PointsBound(m) :
        \E base \in Injections(m, n), ys \in SeqsOfLen(0..1, n), x \in 0..1 :
          \E i, j \in 1..n :
            /\ i # j
            /\ LET xs == [base EXCEPT ![j] = base[i] + m]
               IN  /\ call' = [op |-> "lagrange_interpolate", x |-> x,
                               x_s |-> xs, y_s |-> ys, modulus |-> m]
                   /\ ret' = lagrange_interpolate(x, xs, ys, m)
            /\ UNCHANGED <<p, secret, spec, pool, ext, ext_shares, log, frame>>

NextField == EvalPolyMod \/ InterpolatePoly \/ LagrangeInterpolate \/ LagrangeCongruent

SpecField == InitField /\ [][NextField]_vars

----------------------------------------------------------------------------
(* Calls on hand-built share collections.                                  *)

HandShares == {Share(v, pr) : v \in ShareValues, pr \in HandPaths}
Collections == SeqsUpTo(HandShares, MaxColl)
SmallCollections == SeqsUpTo(HandShares, MaxColl - 1)

\* the collection of tests/share_tests.py and of the documentation
PrefixExample == <<Share(5, <<1, 2, 3>>), Share(6, <<1, 2, 4>>), Share(3, <<1, 3>>)>>

\* extension targets: new indices 0, an index in use, a fresh one, a
\* negative one and the modulus itself, below parent prefixes with and
\* without an element congruent to 0
TargetIndices(m) == {-1, 0, 1, m} \cup FreshIndices
TargetPrefixes(m) == {<<>>, <<-1>>, <<0>>, <<1>>, <<m>>}
Targets(m) ==
    {IntTarget(x) : x \in TargetIndices(m)}
    \cup {TupleTarget(Append(pr, x)) : pr \in TargetPrefixes(m), x \in TargetIndices(m)}
    \cup {TupleTarget(<<>>), OtherTarget}

InitShare ==
    /\ p \in SharePrimes
    /\ InitIdle

CommonPrefix ==
    /\ Idle
    /\ \E shares \in Collections \cup {PrefixExample} :
        /\ call' = [op |-> "common_prefix", shares |-> shares]
        /\ ret' = common_prefix(shares)
        /\ UNCHANGED <<p, secret, spec, pool, ext, ext_shares, log, frame>>

RecoverSecret ==
    /\ Idle
    /\ \E shares \in Collections :
        /\ call' = [op |-> "recover_secret", shares |-> shares]
        /\ ret' = recover_secret(shares, p)
        /\ UNCHANGED <<p, secret, spec, pool, ext, ext_shares, log, frame>>

ExtendPool ==
    /\ Idle
    /\ \E val \in Targets(p), shares \in SmallCollections :
        /\ call' = [op |-> "extend_pool", val |-> val, shares |-> shares]
        /\ ret' = extend_pool(val, shares, p)
        /\ UNCHANGED <<p, secret, spec, pool, ext, ext_shares, log, frame>>

NextShare == CommonPrefix \/ RecoverSecret \/ ExtendPool

SpecShare == InitShare /\ [][NextShare]_vars

----------------------------------------------------------------------------
(* A session on a generated pool: generate, extend by one share, recover.  *)

NotAShare == [int |-> 0]

\* secrets at the root with every value of [0, m) and the two values next to
\* that range, a secret that is itself a share of path (2,), and a plain int
Secrets(m) ==
    {Share(s, <<>>) : s \in (-1)..m} \cup {Share(1, <<2>>)} \cup {NotAShare}

FlatSpecs ==
    {ShamirSpec(k, IntShares(n)) : k \in (-1)..MaxThreshold, n \in (-1)..MaxShares}

SubSpecs == {ShamirSpec(k, IntShares(n)) : k \in 0..MaxNested, n \in 0..MaxNested}

TupleSpecs ==
    {ShamirSpec(k, TupleShares(<<IntEntry(a)>>)) : k \in 0..MaxNested, a \in 0..MaxNested}
    \cup {ShamirSpec(k, TupleShares(<<IntEntry(a), SubEntry(c, sub)>>)) :
            k \in 0..MaxNested, a \in 0..MaxNested, c \in 0..1, sub \in SubSpecs}

\* ShamirSpec(2, (2, (1, ShamirSpec(2, 2))))
HierSpec == ShamirSpec(2, TupleShares(<<IntEntry(2), SubEntry(1, ShamirSpec(2, IntShares(2)))>>))

\* the values coeff_rng.randrange(self.p) can deliver for threshold - 1 draws
\* inputs of the calls with rand_indices or a seed: the seeds, the index
\* ranges 1..R (R below, at and above the modulus), flat specifications
Seeds == {None, PyInt(1), PyInt(6)}
RandIndices(m) == {None} \cup {PyInt(r) : r \in {0, MaxRand, m, m + 1}}
RandSecrets == {Share(1, <<>>), Share(0, <<1>>)}
RandSpecs == {ShamirSpec(k, IntShares(n)) : k \in 1..2, n \in MaxRand..(MaxRand + 1)}

RandCoeffs(sp, m) ==
    IF sp.threshold >= 1 THEN SeqsOfLen(0..(m - 1), sp.threshold - 1) ELSE {<<>>}

\* the elements of s at the positions in I, in the order of s
RECURSIVE Pick(_, _, _)
Pick(s, I, i) ==
    IF i > Len(s) THEN <<>>
    ELSE (IF i \in I THEN <<s[i]>> ELSE <<>>) \o Pick(s, I, i + 1)

InitPool ==
    /\ p \in Primes
    /\ InitIdle

GeneratePool ==
    /\ Idle
    /\ \E sec \in Secrets(p), sp \in FlatSpecs \cup TupleSpecs :
        \E rand_coeffs \in RandCoeffs(sp, p) :
          /\ secret' = sec
          /\ spec' = sp
          /\ pool' = generate_pool(sec, sp, rand_coeffs, p)
          /\ call' = [op |-> "generate_pool", rand_indices |-> None, seed |-> None]
          /\ ret' = pool'
          /\ UNCHANGED <<p, ext, ext_shares, log, frame>>

\* ShamirSpec.num_shares() on a specification
NumShares ==
    /\ Idle
    /\ \E sp \in FlatSpecs \cup TupleSpecs \cup {HierSpec} :
        /\ spec' = sp
        /\ call' = [op |-> "num_shares"]
        /\ ret' = Return(num_shares(sp))
        /\ UNCHANGED <<p, secret, pool, ext, ext_shares, log, frame>>

\* ShamirSpec.validate() on a specification
Validate ==
    /\ Idle
    /\ \E sp \in FlatSpecs \cup TupleSpecs \cup {HierSpec} :
        /\ spec' = sp
        /\ call' = [op |-> "validate"]
        /\ ret' = validate(sp)
        /\ UNCHANGED <<p, secret, pool, ext, ext_shares, log, frame>>

\* generate_pool with rand_indices or a seed (or both) given
GeneratePoolRand ==
    /\ Idle
    /\ \E sec \in RandSecrets, sp \in RandSpecs,
          rand_indices \in RandIndices(p), seed \in Seeds :
        /\ ~(rand_indices.none /\ seed.none)
        /\ \E rand_coeffs \in coeff_draws(seed, sp.threshold - 1, p),
              chosen \in index_draws(sp, rand_indices, seed) :
              /\ secret' = sec
              /\ spec' = sp
              /\ pool' = generate_pool_rand(sec, sp, rand_coeffs, chosen, p)
              /\ call' = [op |-> "generate_pool", rand_indices |-> rand_indices,
                          seed |-> seed]
              /\ ret' = pool'
              /\ UNCHANGED <<p, ext, ext_shares, log, frame>>

\* extend the generated pool by the share of index n + 1, from any
\* threshold-many of its shares (tests/shamir_tests.py)
ExtendFromPool ==
    /\ call.op = "generate_pool"
    /\ call.rand_indices.none
    /\ call.seed.none
    /\ Returned(pool)
    /\ \E I \in {J \in SUBSET (1..Len(pool.val)) : Cardinality(J) = spec.threshold} :
        LET shares == Pick(pool.val, I, 1)
            val == IF secret.prefix = <<>> THEN IntTarget(Len(pool.val) + 1)
                   ELSE TupleTarget(Append(secret.prefix, Len(pool.val) + 1))
        IN  /\ ext' = extend_pool(val, shares, p)
            /\ ext_shares' = shares
            /\ call' = [op |-> "extend_pool", val |-> val, shares |-> shares]
            /\ ret' = ext'
            /\ UNCHANGED <<p, secret, spec, pool, log, frame>>

\* the generated shares, followed by the extension share when there is one
AllShares == pool.val \o (IF Returned(ext) THEN <<ext.val>> ELSE <<>>)

\* recover from any of the generated shares
RecoverFromPool ==
    /\ call.op = "generate_pool"
    /\ call.rand_indices.none
    /\ call.seed.none
    /\ Returned(pool)
    /\ \E I \in SUBSET (1..Len(pool.val)) :
        LET shares == Pick(pool.val, I, 1)
        IN  /\ call' = [op |-> "recover_secret", shares |-> shares]
            /\ ret' = recover_secret(shares, p)
            /\ UNCHANGED <<p, secret, spec, pool, ext, ext_shares, log, frame>>

\* after the extension, recover from any threshold-many of all the shares
\* (tests/shamir_tests.py)
RecoverAfterExtend ==
    /\ call.op = "extend_pool"
    /\ Returned(pool)
    /\ \E I \in {J \in SUBSET (1..Len(AllShares)) : Cardinality(J) = spec.threshold} :
        LET shares == Pick(AllShares, I, 1)
        IN  /\ call' = [op |-> "recover_secret", shares |-> shares]
            /\ ret' = recover_secret(shares, p)
            /\ UNCHANGED <<p, secret, spec, pool, ext, ext_shares, log, frame>>

Next ==
    \/ NumShares
    \/ Validate
    \/ GeneratePool
    \/ GeneratePoolRand
    \/ ExtendFromPool
    \/ RecoverFromPool
    \/ RecoverAfterExtend

Spec == InitPool /\ [][Next]_vars

----------------------------------------------------------------------------
(* A session of several generate_pool calls on one engine.                 *)

SessionSecrets == {Share(1, <<>>), Share(2, <<>>)}
SessionSpecs == {ShamirSpec(2, IntShares(3))}
SessionIndices == {None, PyInt(4)}

InitSession ==
    /\ p \in SharePrimes
    /\ InitIdle

\* the outcomes of a seeded call, or of an unseeded one with sequential
\* indices, appended to the session's log
GeneratePoolAgain ==
    /\ Len(log) < MaxCalls
    /\ \E sec \in SessionSecrets, sp \in SessionSpecs,
          rand_indices \in SessionIndices, seed \in Seeds :
        /\ seed.none => rand_indices.none
        /\ \E rand_coeffs \in coeff_draws(seed, sp.threshold - 1, p),
              chosen \in index_draws(sp, rand_indices, seed) :
              /\ secret' = sec
              /\ spec' = sp
              /\ pool' = generate_pool_rand(sec, sp, rand_coeffs, chosen, p)
              /\ call' = [op |-> "generate_pool", rand_indices |-> rand_indices,
                          seed |-> seed]
              /\ ret' = pool'
              /\ log' = Append(log, [secret |-> sec, spec |-> sp,
                                     rand_indices |-> rand_indices,
                                     seed |-> seed, outcome |-> pool'])
              /\ UNCHANGED <<p, ext, ext_shares, frame>>

NextSession == GeneratePoolAgain

SpecSession == InitSession /\ [][NextSession]_vars

----------------------------------------------------------------------------
(* generate_pool statement by statement.                                   *)

\* the statements of generate_pool and _rec_generate_pool with the random
\* generator created ahead of spec.validate()
GenOrder_rng_first ==
    <<"type", "rng", "validate", "size", "coeffs", "indices", "eval", "shares">>

\* the statements of generate_pool and of the _rec_generate_pool call it
\* ends with, in program order: the type test of the secret, spec.validate(),
\* the creation of the generator and of rng, the test of the share count
\* against p, the coefficients, the indices, the evaluations, the shares
GenOrder ==
    <<"type", "validate", "rng", "size", "coeffs", "indices", "eval", "shares">>

\* the statement after pc
GenAfter(pc) ==
    LET i == CHOOSE k \in 1..Len(GenOrder) : GenOrder[k] = pc
    IN  IF i < Len(GenOrder) THEN GenOrder[i + 1] ELSE "done"

\* the frame once the statement at its pc has run without raising
Advance(fr) == [fr EXCEPT !.pc = GenAfter(fr.pc), !.done = Append(fr.done, fr.pc)]

\* the frame once the statement at its pc has raised or returned
Finish(fr) == [fr EXCEPT !.pc = "done", !.done = Append(fr.done, fr.pc)]

StepSecrets == {Share(1, <<>>), NotAShare}
StepSpecs == FlatSpecs \cup TupleSpecs
StepIndices == {None, PyInt(MaxRand), PyInt(MaxRand + 1)}
StepSeeds == {None, PyInt(1)}

InitGenerate ==
    /\ p \in SharePrimes
    /\ InitIdle

GenCall ==
    /\ Idle
    /\ frame = NoFrame
    /\ \E sec \in StepSecrets, sp \in StepSpecs,
          rand_indices \in StepIndices, seed \in StepSeeds :
        /\ secret' = sec
        /\ spec' = sp
        /\ call' = [op |-> "generate_pool", rand_indices |-> rand_indices,
                    seed |-> seed]
        /\ frame' = [pc |-> GenOrder[1], done |-> <<>>, coeffs |-> <<>>,
                     indices |-> <<>>, share_pts |-> <<>>]
        /\ UNCHANGED <<p, pool, ext, ext_shares, ret, log>>

\* a statement of the call in progress raises e
GenRaise(e) ==
    /\ pool' = Raise(e)
    /\ ret' = Raise(e)
    /\ frame' = Finish(frame)
    /\ UNCHANGED <<p, secret, spec, ext, ext_shares, call, log>>

\* a statement of the call in progress ends leaving the frame fr
GenGoOn(fr) ==
    /\ frame' = fr
    /\ UNCHANGED <<p, secret, spec, pool, ext, ext_shares, call, ret, log>>

GenTypeTest ==
    /\ frame.pc = "type"
    /\ IF ~IsShare(secret) THEN GenRaise("ValueError") ELSE GenGoOn(Advance(frame))

GenValidate ==
    /\ frame.pc = "validate"
    /\ IF ~Returned(validate(spec)) THEN GenRaise(validate(spec).val)
       ELSE GenGoOn(Advance(frame))

GenMakeRng ==
    /\ frame.pc = "rng"
    /\ GenGoOn(Advance(frame))

GenSizeTest ==
    /\ frame.pc = "size"
    /\ IF num_shares(spec).none THEN GenRaise("TypeError")
       ELSE IF num_shares(spec).int >= p THEN GenRaise("ValueError")
       ELSE GenGoOn(Advance(frame))

GenCoeffs ==
    /\ frame.pc = "coeffs"
    /\ \E rand_coeffs \in coeff_draws(call.seed, spec.threshold - 1, p) :
        GenGoOn([Advance(frame) EXCEPT !.coeffs = <<secret.value % p>> \o rand_coeffs])

GenIndices ==
    /\ frame.pc = "indices"
    /\ \E chosen \in index_draws(spec, call.rand_indices, call.seed) :
        IF ~Returned(chosen) THEN GenRaise(chosen.val)
        ELSE GenGoOn([Advance(frame) EXCEPT !.indices = chosen.val])

GenEval ==
    /\ frame.pc = "eval"
    /\ GenGoOn([Advance(frame) EXCEPT !.share_pts =
                   [i \in 1..Len(frame.indices) |->
                       eval_poly_mod(frame.coeffs, frame.indices[i], p)]])

GenShares ==
    /\ frame.pc = "shares"
    /\ pool' = Return([i \in 1..Len(frame.indices) |->
                         Share(frame.share_pts[i],
                               Append(secret.prefix, frame.indices[i]))])
    /\ ret' = pool'
    /\ frame' = Finish(frame)
    /\ UNCHANGED <<p, secret, spec, ext, ext_shares, call, log>>

NextGenerate ==
    \/ GenCall
    \/ GenTypeTest
    \/ GenValidate
    \/ GenMakeRng
    \/ GenSizeTest
    \/ GenCoeffs
    \/ GenIndices
    \/ GenEval
    \/ GenShares

SpecGenerate == InitGenerate /\ [][NextGenerate]_vars

----------------------------------------------------------------------------
(* _combine_shares iteration by iteration.                                 *)

\* all_prefixes left in the insertion order of share_pool
sorted_prefixes_unsorted(keys) == keys

\* all_prefixes = list(share_pool.keys()); all_prefixes.sort(key=len,
\* reverse=True)
sorted_prefixes(keys) == sort_by_length(keys, MaxLength(keys))

\* the merged share left out of its parent's group
fold_dropped(share_pool, merged) == share_pool

\* share_pool[pr[:-1]].append(merged)
fold(share_pool, merged) ==
    [share_pool EXCEPT ![Take(merged.prefix, Len(merged.prefix) - 1)] = Append(@, merged)]

\* shares below the root, at the non-negative hand-built paths
CombineShares ==
    {sh \in HandShares : sh.prefix # <<>> /\ ~(\E i \in 1..Len(sh.prefix) : sh.prefix[i] < 0)}
CombineCollections == SeqsUpTo(CombineShares, MaxColl)

\* the frame of a call that has ended after the groups in merged
Ended(merged) ==
    [pc |-> "done", all_prefixes |-> <<>>, j |-> 0, share_pool |-> <<>>,
     common_prefix |-> <<>>, merged |-> merged]

InitCombine ==
    /\ p \in SharePrimes
    /\ InitIdle

\* recover_secret up to the loop over all_prefixes
CombineCall ==
    /\ Idle
    /\ frame = NoFrame
    /\ \E shares \in CombineCollections :
        LET cp == common_prefix(shares)
            at_prefix == {i \in 1..Len(shares) : shares[i].prefix = cp.val}
            keys == pool_keys(shares, 1, Len(cp.val), <<>>)
        IN  /\ call' = [op |-> "recover_secret", shares |-> shares]
            /\ IF ~Returned(cp)
               THEN ret' = cp /\ frame' = Ended(<<>>)
               ELSE IF at_prefix # {}
               THEN /\ ret' = Return(shares[CHOOSE i \in at_prefix :
                                               \A k \in at_prefix : i <= k])
                    /\ frame' = Ended(<<>>)
               ELSE /\ ret' = ret
                    /\ frame' = [pc |-> "merge",
                                 all_prefixes |-> sorted_prefixes(keys),
                                 j |-> 1,
                                 share_pool |-> initial_share_pool(shares, keys),
                                 common_prefix |-> cp.val,
                                 merged |-> <<>>]
            /\ UNCHANGED <<p, secret, spec, pool, ext, ext_shares, log>>

\* one iteration of "for pr in all_prefixes", with the return statement
\* when it is the last one
CombineMerge ==
    /\ frame.pc = "merge"
    /\ LET pr == frame.all_prefixes[frame.j]
           group == frame.share_pool[pr]
           xs == [i \in 1..Len(group) |-> share_x(group[i])]
           ys == [i \in 1..Len(group) |-> group[i].value]
           merged_val == lagrange_interpolate(0, xs, ys, p)
           merged == Append(frame.merged, [pr |-> pr, group |-> group])
       IN  IF ~Returned(merged_val)
           THEN ret' = merged_val /\ frame' = Ended(merged)
           ELSE IF pr = frame.common_prefix
           THEN ret' = Return(Share(merged_val.val, pr)) /\ frame' = Ended(merged)
           ELSE IF frame.j = Len(frame.all_prefixes)
           THEN ret' = Return(None) /\ frame' = Ended(merged)
           ELSE /\ ret' = ret
                /\ frame' = [frame EXCEPT
                       !.j = @ + 1,
                       !.share_pool = fold(@, Share(merged_val.val, pr)),
                       !.merged = merged]
    /\ UNCHANGED <<p, secret, spec, pool, ext, ext_shares, call, log>>

NextCombine == CombineCall \/ CombineMerge

SpecCombine == InitCombine /\ [][NextCombine]_vars

----------------------------------------------------------------------------
(* Reference definitions of the field: powers and polynomial values.       *)

RECURSIVE Power(_, _)
Power(b, e) == IF e = 0 THEN 1 ELSE b * Power(b, e - 1)

RECURSIVE PolySum(_, _, _)
PolySum(cs, x, i) ==
    IF i > Len(cs) THEN 0 ELSE cs[i] * Power(x, i - 1) + PolySum(cs, x, i + 1)

PolyValue(cs, x, m) == PolySum(cs, x, 1) % m

HasDuplicate(s) == \E i, j \in 1..Len(s) : i # j /\ s[i] = s[j]

----------------------------------------------------------------------------
(* Reference definitions on paths and specifications.                      *)

IsPrefixOf(r, path) == Len(r) <= Len(path) /\ Take(path, Len(r)) = r

PathsOf(shares) == [i \in 1..Len(shares) |-> shares[i].prefix]

CommonPrefixes(paths) ==
    {r \in {Take(paths[1], n) : n \in 0..Len(paths[1])} :
        \A i \in 1..Len(paths) : IsPrefixOf(r, paths[i])}

LongestCommonPrefix(paths) ==
    CHOOSE r \in CommonPrefixes(paths) : \A q \in CommonPrefixes(paths) : Len(q) <= Len(r)

\* no path of the collection equals or extends another one's
Antichain(paths) ==
    \A i, j \in 1..Len(paths) : i # j => ~IsPrefixOf(paths[i], paths[j])

\* the number of direct shares a specification declares at its top level
RECURSIVE SumCounts(_, _)
SumCounts(entries, i) ==
    IF i > Len(entries) THEN 0 ELSE entries[i].n + SumCounts(entries, i + 1)

DirectShares(sp) ==
    IF sp.shares.type = "int" THEN sp.shares.n ELSE SumCounts(sp.shares.entries, 1)

RECURSIVE Violates(_, _)
Violates(sp, m) ==
    \/ sp.threshold < 1
    \/ DirectShares(sp) < sp.threshold
    \/ DirectShares(sp) > m - 1
    \/ sp.shares.type = "int" /\ sp.shares.n < 1
    \/ /\ sp.shares.type = "tuple"
       /\ \E i \in 1..Len(sp.shares.entries) :
            \/ sp.shares.entries[i].n < 1
            \/ sp.shares.entries[i].type = "sub" /\ Violates(sp.shares.entries[i].spec, m)

----------------------------------------------------------------------------
(* C1: a flat pool of n shares generated with threshold k for a secret     *)
(* value s in [0, p), whatever the k-1 random coefficients, gives back a   *)
(* share of value s when recover_secret is given any k of the n shares.    *)
C1_FlatRoundTrip ==
    /\ (/\ call.op = "generate_pool"
        /\ call.rand_indices.none
        /\ IsShare(secret)
        /\ spec.shares.type = "int"
        /\ 1 <= spec.threshold
        /\ spec.threshold <= spec.shares.n
        /\ spec.shares.n < p)
       => /\ Returned(pool)
          /\ Len(pool.val) = spec.shares.n
    /\ (/\ call.op = "recover_secret"
        /\ Returned(pool)
        /\ spec.shares.type = "int"
        /\ secret.value \in 0..(p - 1)
        /\ Len(call.shares) = spec.threshold
        /\ SeqRange(call.shares) \subseteq SeqRange(pool.val))
       => /\ Returned(ret)
          /\ ret.val.value = secret.value

C1_Witness ==
    /\ call.op = "recover_secret"
    /\ Returned(pool)
    /\ spec.threshold = 3
    /\ Len(pool.val) = 4
    /\ call.shares = Pick(pool.val, {2, 3, 4}, 1)
    /\ secret.value = 4
    /\ ret = Return(Share(4, <<>>))

(* C2: for a flat pool of threshold k and n shares with n + 1 < p,         *)
(* extend_pool with the new index n + 1 on any k generated shares returns  *)
(* a share of path secret.path + (n + 1,), and recover_secret on any k of  *)
(* the n + 1 shares returns the original secret value.                     *)
C2_ExtensionConsistent ==
    /\ (/\ call.op = "extend_pool"
        /\ Returned(pool)
        /\ Len(ext_shares) = spec.threshold
        /\ Len(pool.val) + 1 < p)
       => /\ Returned(ext)
          /\ ext.val.prefix = Append(secret.prefix, Len(pool.val) + 1)
          /\ ext.val.value \in 0..(p - 1)
    /\ (/\ call.op = "recover_secret"
        /\ Returned(pool)
        /\ Returned(ext)
        /\ secret.value \in 0..(p - 1)
        /\ Len(ext_shares) = spec.threshold
        /\ Len(call.shares) = spec.threshold)
       => /\ Returned(ret)
          /\ ret.val.value = secret.value

C2_Witness ==
    /\ call.op = "recover_secret"
    /\ Returned(pool)
    /\ Returned(ext)
    /\ spec.threshold = 3
    /\ Len(pool.val) = 3
    /\ ext_shares = pool.val
    /\ call.shares = <<pool.val[1], pool.val[3], ext.val>>
    /\ secret.value = 2
    /\ ret = Return(Share(2, <<>>))

(* C3: for ShamirSpec(2, (2, (1, ShamirSpec(2, 2)))) generate_pool returns *)
(* the four leaf shares of the tree, two with paths of length 1 and two    *)
(* with paths of length 2, all paths distinct, and recover_secret on one   *)
(* direct share plus both sub-shares returns the original secret value.    *)
C3_Hierarchical ==
    /\ (/\ call.op = "generate_pool"
        /\ IsShare(secret)
        /\ spec = HierSpec
        /\ DirectShares(spec) < p)
       => /\ Returned(pool)
          /\ Len(pool.val) = 4
          /\ Cardinality({i \in 1..4 : Len(pool.val[i].prefix) = 1}) = 2
          /\ Cardinality({i \in 1..4 : Len(pool.val[i].prefix) = 2}) = 2
          /\ Cardinality({pool.val[i].prefix : i \in 1..4}) = 4
    /\ (/\ call.op = "recover_secret"
        /\ Returned(pool)
        /\ spec = HierSpec
        /\ Len(call.shares) = 3
        /\ Cardinality({i \in 1..3 : Len(call.shares[i].prefix) = 2}) = 2)
       => /\ Returned(ret)
          /\ ret.val.value = secret.value

(* C7: generate_pool raises ValueError and produces no share for a         *)
(* specification with a threshold below 1, fewer direct shares than the    *)
(* threshold, a multiplicity below 1, or more than p - 1 direct shares, at *)
(* the top level or at any nested level.                                   *)
C7_InvalidSpecRejected ==
    (/\ call.op = "generate_pool"
     /\ IsShare(secret)
     /\ Violates(spec, p))
    => Raised(pool, "ValueError")

(* C8: common_prefix returns the longest sequence that is a leading        *)
(* subsequence of every given share's path: (1,) for the paths (1,2,3),    *)
(* (1,2,4), (1,3), the empty path when first elements differ, the share's  *)
(* own path for a single share; it raises ValueError for no share.         *)
C8_CommonPrefix ==
    call.op = "common_prefix" =>
        IF call.shares = <<>> THEN Raised(ret, "ValueError")
        ELSE /\ Returned(ret)
             /\ \A i \in 1..Len(call.shares) : IsPrefixOf(ret.val, call.shares[i].prefix)
             /\ \A n \in (Len(ret.val) + 1)..Len(call.shares[1].prefix) :
                  \E i \in 1..Len(call.shares) :
                     ~IsPrefixOf(Take(call.shares[1].prefix, n), call.shares[i].prefix)
             /\ (Len(call.shares) = 1 => ret.val = call.shares[1].prefix)
             /\ (call.shares = PrefixExample => ret.val = <<1>>)
             /\ ((\E i, j \in 1..Len(call.shares) :
                     /\ call.shares[i].prefix # <<>>
                     /\ call.shares[j].prefix # <<>>
                     /\ call.shares[i].prefix[1] # call.shares[j].prefix[1])
                 => ret.val = <<>>)

C8_Witness ==
    /\ call.op = "common_prefix"
    /\ call.shares = PrefixExample
    /\ ret = Return(<<1>>)

----------------------------------------------------------------------------
(* The parts of an extension target that carries a new index.              *)

HasIndex(val) == val.type = "int" \/ (val.type = "tuple" /\ val.t # <<>>)
NewIndex(val) == IF val.type = "int" THEN val.n ELSE val.t[Len(val.t)]
ParentPrefix(val) == IF val.type = "int" THEN <<>> ELSE Take(val.t, Len(val.t) - 1)

ReservedTarget(val, m) ==
    \/ NewIndex(val) % m = 0
    \/ \E i \in 1..Len(ParentPrefix(val)) : ParentPrefix(val)[i] % m = 0

\* some share's path is the parent prefix plus exactly one element
HasDirectChild(val, shares) ==
    \E i \in 1..Len(shares) :
        /\ Len(shares[i].prefix) = Len(ParentPrefix(val)) + 1
        /\ IsPrefixOf(ParentPrefix(val), shares[i].prefix)

\* some share's path is the parent prefix plus one or more elements
HasDescendant(val, shares) ==
    \E i \in 1..Len(shares) :
        /\ Len(shares[i].prefix) > Len(ParentPrefix(val))
        /\ IsPrefixOf(ParentPrefix(val), shares[i].prefix)

----------------------------------------------------------------------------
(* C4: interpolating through m points, with pairwise distinct             *)
(* x-coordinates, of a polynomial of degree < m returns the polynomial's   *)
(* value at every x; in particular for f(x) = 2 + 5x + 3x^2 mod 11 and     *)
(* every 3 distinct x-coordinates in 0..10.                                *)
C4_InterpolationCorrect ==
    call.op = "interpolate_poly" =>
        /\ Returned(ret)
        /\ ret.val = PolyValue(call.coeffs, call.x, call.modulus)

C4_Witness ==
    /\ call.op = "interpolate_poly"
    /\ call.modulus = TestPrime
    /\ call.coeffs = TestCoeffs
    /\ call.x_s = <<7, 1, 2>>
    /\ call.y_s = <<8, 10, 2>>
    /\ call.x = 5
    /\ ret = Return(3)

(* C5: eval_poly_mod returns (sum of coeffs[i] * x^i) mod p, a value in    *)
(* [0, p), for every coefficient list and every integer x (negative x and  *)
(* x >= p included); 0 for the empty list; and 2, 10, 3, 10, 2 at          *)
(* x = 0, 1, 5, -10, 11 for coeffs [2, 5, 3] and p = 11.                   *)
C5_EvalPolyMod ==
    call.op = "eval_poly_mod" =>
        /\ Returned(ret)
        /\ ret.val = PolyValue(call.coeffs, call.x, call.modulus)
        /\ ret.val \in 0..(call.modulus - 1)
        /\ (call.coeffs = <<>> => ret.val = 0)
        /\ (call.coeffs = TestCoeffs /\ call.modulus = TestPrime =>
              /\ (call.x = 0 => ret.val = 2)
              /\ (call.x = 1 => ret.val = 10)
              /\ (call.x = 5 => ret.val = 3)
              /\ (call.x = -10 => ret.val = 10)
              /\ (call.x = 11 => ret.val = 2))

C5_Witness ==
    /\ call.op = "eval_poly_mod"
    /\ call.coeffs = TestCoeffs
    /\ call.modulus = TestPrime
    /\ call.x = -10
    /\ ret = Return(10)

(* C6: lagrange_interpolate raises ValueError whenever xs holds the same   *)
(* x-coordinate twice, whether the y values there are equal or different,  *)
(* for every evaluation point; it returns no value then.                   *)
C6_DuplicateRejected ==
    (call.op = "lagrange_interpolate" /\ HasDuplicate(call.x_s)) =>
        Raised(ret, "ValueError")

C6_Witness ==
    /\ call.op = "lagrange_interpolate"
    /\ \E i, j \in 1..Len(call.x_s) :
          i # j /\ call.x_s[i] = call.x_s[j] /\ call.y_s[i] # call.y_s[j]
    /\ Raised(ret, "ValueError")

----------------------------------------------------------------------------
(* Reference definitions on pools.                                         *)

Index(sh) == sh.prefix[Len(sh.prefix)]
Parent(sh) == Take(sh.prefix, Len(sh.prefix) - 1)

\* the shares are the values at their indices of one polynomial over Z/mZ
\* with constant term c and fewer than k coefficients past it
OnePolynomial(shares, c, k, m) ==
    \E cs \in SeqsOfLen(0..(m - 1), k - 1) :
        \A i \in 1..Len(shares) :
            shares[i].value = PolyValue(<<c>> \o cs, Index(shares[i]), m)

(* C11: for a flat specification with n shares and no rand_indices,        *)
(* generate_pool returns exactly n shares in index order, the i-th with    *)
(* path secret.path + (i,) and a value in [0, p), and all n values are the *)
(* values at 1..n of one polynomial of degree at most threshold - 1 whose  *)
(* constant term is the secret's value.                                    *)
C11_FlatPoolShape ==
    (/\ call.op = "generate_pool"
     /\ call.rand_indices.none
     /\ IsShare(secret)
     /\ secret.value \in 0..(p - 1)
     /\ spec.shares.type = "int"
     /\ 1 <= spec.threshold
     /\ spec.threshold <= spec.shares.n
     /\ spec.shares.n < p)
    => /\ Returned(pool)
       /\ Len(pool.val) = spec.shares.n
       /\ \A i \in 1..Len(pool.val) :
            /\ pool.val[i].prefix = Append(secret.prefix, i)
            /\ pool.val[i].value \in 0..(p - 1)
       /\ OnePolynomial(pool.val, secret.value, spec.threshold, p)

C11_Witness ==
    /\ call.op = "generate_pool"
    /\ call.rand_indices.none
    /\ secret = Share(1, <<2>>)
    /\ spec = ShamirSpec(3, IntShares(4))
    /\ Returned(pool)
    /\ PathsOf(pool.val) = <<<<2, 1>>, <<2, 2>>, <<2, 3>>, <<2, 4>>>>
    /\ pool.val[1].value = 0
    /\ pool.val[2].value = 3

C13_SiblingIndices ==
    (call.op = "generate_pool" /\ Returned(pool)) =>
        /\ \A i, j \in 1..Len(pool.val) :
             (i # j /\ Parent(pool.val[i]) = Parent(pool.val[j]))
             => Index(pool.val[i]) # Index(pool.val[j])
        /\ \A i \in 1..Len(pool.val) :
             /\ pool.val[i].prefix # <<>>
             /\ Index(pool.val[i]) # 0
             /\ ~call.rand_indices.none
                => Index(pool.val[i]) \in 1..call.rand_indices.int

C13_Witness ==
    /\ call.op = "generate_pool"
    /\ call.rand_indices = PyInt(p + 1)
    /\ call.seed.none
    /\ Returned(pool)
    /\ Len(pool.val) = 3
    /\ Index(pool.val[1]) = p + 1
    /\ Index(pool.val[3]) = 1

(* C14: generate_pool given a secret Share whose value is negative or at   *)
(* least p does not return the pool it returns for the value reduced       *)
(* mod p.                                                                  *)
C14_OutOfRangeNotReduced ==
    (/\ call.op = "generate_pool"
     /\ IsShare(secret)
     /\ secret.value \notin 0..(p - 1))
    => ~(/\ Returned(pool)
         /\ \E cs \in RandCoeffs(spec, p) :
              pool = generate_pool(Share(secret.value % p, secret.prefix), spec, cs, p))

----------------------------------------------------------------------------
(* Reference definitions on share collections and targets.                 *)

NegativeIn(path) == \E i \in 1..Len(path) : path[i] < 0

TargetPath(val) == IF val.type = "int" THEN <<val.n>> ELSE val.t

\* a call of recover_secret, or of extend_pool with a target that carries a
\* new index
OnShares ==
    /\ call.op \in {"recover_secret", "extend_pool"}
    /\ call.op = "extend_pool" => HasIndex(call.val)

(* C15: recover_secret and extend_pool fail with ValueError, and return no *)
(* share, whenever the given collection holds two shares with the same     *)
(* path, with equal or with different values.                              *)
C15_CollisionRejected ==
    (OnShares /\ HasDuplicate(PathsOf(call.shares)))
    => Raised(ret, "ValueError")

(* C16: extend_pool fails with ValueError for a target index or target     *)
(* path with a negative element not congruent to 0 mod p, and              *)
(* recover_secret and extend_pool fail with ValueError when a given        *)
(* share's path has a negative element.                                    *)
C16_NegativeRejected ==
    (/\ OnShares
     /\ \/ \E i \in 1..Len(call.shares) : NegativeIn(call.shares[i].prefix)
        \/ /\ call.op = "extend_pool"
           /\ \E i \in 1..Len(TargetPath(call.val)) :
                 TargetPath(call.val)[i] < 0 /\ TargetPath(call.val)[i] % p # 0)
    => Raised(ret, "ValueError")

(* C17: every extend_pool call, for an int, a non-empty tuple, the empty   *)
(* tuple or any other target and every share collection, either returns a  *)
(* Share or raises ValueError.                                             *)
C17_ExtendAtomic ==
    call.op = "extend_pool" =>
        \/ Returned(ret) /\ IsShare(ret.val)
        \/ Raised(ret, "ValueError")

(* C18: recover_secret given m shares of a flat pool, 1 <= m < threshold,  *)
(* raises no error and returns a share whose value is the value at 0 of    *)
(* the polynomial of degree < m through the m given points; for some       *)
(* coefficients that value is not the secret.                              *)
C18_TooFewShares ==
    (/\ call.op = "recover_secret"
     /\ Returned(pool)
     /\ spec.shares.type = "int"
     /\ 1 <= Len(call.shares)
     /\ Len(call.shares) < spec.threshold
     /\ SeqRange(call.shares) \subseteq SeqRange(pool.val))
    => /\ Returned(ret)
       /\ IsShare(ret.val)
       /\ \E c \in 0..(p - 1) :
            /\ OnePolynomial(call.shares, c, Len(call.shares), p)
            /\ ret.val.value = c

C18_Witness ==
    /\ call.op = "recover_secret"
    /\ Returned(pool)
    /\ spec = ShamirSpec(3, IntShares(4))
    /\ secret = Share(2, <<>>)
    /\ PathsOf(call.shares) = <<<<1>>, <<3>>>>
    /\ Returned(ret)
    /\ ret.val.value # secret.value

\* the share standing for the child head of the parent prefix: the given
\* share at head when there is one, else the given shares below head
\* merged up to head
PeerAtChild(group, head, modulus) ==
    LET at_head == {i \in 1..Len(group) : group[i].prefix = head}
    IN  IF at_head # {}
        THEN Return(group[CHOOSE i \in at_head : \A k \in at_head : i <= k])
        ELSE LET keys == pool_keys(group, 1, Len(head), <<>>)
                 all_prefixes == sort_by_length(keys, MaxLength(keys))
             IN  merge_loop(all_prefixes, 1, initial_share_pool(group, keys),
                            head, modulus)

(* C19: extend_pool interpolates, at the new index, one peer per distinct  *)
(* child c of the parent prefix, the peer having index c and the value of  *)
(* the given shares at or below that child combined up to the child, also  *)
(* when the given shares lie two or more levels below the parent prefix;   *)
(* the share returned has path parent_prefix + (new_index,).               *)
C19_PeersAtChildLevel ==
    (/\ call.op = "extend_pool"
     /\ HasIndex(call.val)
     /\ ~ReservedTarget(call.val, p)
     /\ HasDescendant(call.val, call.shares))
    => LET prefix == ParentPrefix(call.val)
           heads == active_heads(call.shares, 1, prefix, <<>>)
           peers == [j \in 1..Len(heads) |->
                       PeerAtChild(active_group(call.shares, prefix, heads[j]),
                                   heads[j], p)]
           value == lagrange_interpolate(NewIndex(call.val),
                        [j \in 1..Len(heads) |-> heads[j][Len(heads[j])]],
                        [j \in 1..Len(heads) |-> peers[j].val.value], p)
       IN  (/\ \A j \in 1..Len(heads) : Returned(peers[j])
            /\ Returned(value))
           => ret = Return(Share(value.val, Append(prefix, NewIndex(call.val))))

(* C20: when a share given to recover_secret has the common prefix of all  *)
(* given paths as its path, a share given at that path is returned as it   *)
(* is, whatever deeper shares are given with it.                           *)
C20_ShareAtCommonPrefix ==
    (/\ call.op = "recover_secret"
     /\ call.shares # <<>>
     /\ \E i \in 1..Len(call.shares) :
           call.shares[i].prefix = LongestCommonPrefix(PathsOf(call.shares)))
    => /\ Returned(ret)
       /\ \E i \in 1..Len(call.shares) :
            /\ call.shares[i].prefix = LongestCommonPrefix(PathsOf(call.shares))
            /\ ret.val = call.shares[i]

C20_Witness ==
    /\ call.op = "recover_secret"
    /\ call.shares = <<Share(1, <<1, 2>>), Share(0, <<1>>), Share(1, <<1, 1>>)>>
    /\ ret = Return(Share(0, <<1>>))

----------------------------------------------------------------------------
\* a specification with a threshold below 1, a multiplicity below 1 or
\* fewer direct shares than its threshold, at the top or at a nested level
RECURSIVE SpecError(_)
SpecError(sp) ==
    \/ sp.threshold < 1
    \/ DirectShares(sp) < sp.threshold
    \/ sp.shares.type = "int" /\ sp.shares.n < 1
    \/ /\ sp.shares.type = "tuple"
       /\ \E i \in 1..Len(sp.shares.entries) :
            \/ sp.shares.entries[i].n < 1
            \/ sp.shares.entries[i].type = "sub" /\ SpecError(sp.shares.entries[i].spec)

RandomSteps == {"rng", "coeffs", "indices", "eval", "shares"}

(* C21: a generate_pool call on a specification with an invalid threshold, *)
(* an invalid multiplicity or a threshold above the declared share count,  *)
(* at any level, ends by raising, and at no moment of the call has a       *)
(* random generator been created, a random value drawn or a polynomial     *)
(* evaluated.                                                              *)
C21_ErrorBeforeRandomness ==
    (/\ call.op = "generate_pool"
     /\ frame # NoFrame
     /\ SpecError(spec))
    => /\ frame.pc \notin RandomSteps
       /\ \A i \in 1..Len(frame.done) : frame.done[i] \notin RandomSteps
       /\ frame.pc = "done" => ret.kind = "raise"

C21_Witness ==
    /\ call.op = "generate_pool"
    /\ IsShare(secret)
    /\ spec = ShamirSpec(3, IntShares(2))
    /\ ~call.seed.none
    /\ frame.pc = "done"
    /\ frame.done = <<"type", "validate">>
    /\ Raised(ret, "ValueError")

\* the statement-by-statement call ends as generate_pool does
GenerateStepsAgree ==
    (call.op = "generate_pool" /\ frame # NoFrame /\ frame.pc = "done") =>
        \E rand_coeffs \in coeff_draws(call.seed, spec.threshold - 1, p),
           chosen \in index_draws(spec, call.rand_indices, call.seed) :
            ret = generate_pool_rand(secret, spec, rand_coeffs, chosen, p)

(* C22: num_shares() returns the number of direct shares of the top      *)
(* level, the count itself for a plain count and the sum of the plain      *)
(* counts and the pair counts for a tuple of entries, and validate()       *)
(* raises ValueError when that number is below the threshold.              *)
C22_NumShares ==
    /\ call.op = "num_shares" => ret = Return(PyInt(DirectShares(spec)))
    /\ (/\ call.op = "validate"
        /\ spec.threshold >= 1
        /\ spec.shares.type = "int" => spec.shares.n >= 1
        /\ spec.shares.type = "tuple" =>
              \A i \in 1..Len(spec.shares.entries) : spec.shares.entries[i].n >= 1
        /\ DirectShares(spec) < spec.threshold)
       => Raised(ret, "ValueError")

----------------------------------------------------------------------------
\* path r is a proper leading part of path q
StrictlyBelow(q, r) == Len(q) > Len(r) /\ IsPrefixOf(r, q)

\* a recover_secret call whose loop over the parent groups has begun
Merging == call.op = "recover_secret" /\ frame # NoFrame /\ frame.merged # <<>>

(* C23: the parent groups are interpolated from deepest to shallowest: a   *)
(* group is interpolated after every group below it, with the merged share *)
(* of each of its child groups folded into it, no group is interpolated    *)
(* twice, and a call that returns returns the share built at the common    *)
(* prefix, by the last iteration made.                                     *)
C23_DeepestFirst ==
    Merging =>
        LET m == frame.merged
            paths == PathsOf(call.shares)
            cp == LongestCommonPrefix(paths)
        IN  /\ \A i, j \in 1..Len(m) :
                 i < j => /\ Len(m[i].pr) >= Len(m[j].pr)
                          /\ m[i].pr # m[j].pr
            /\ \A j \in 1..Len(m), k \in 1..Len(paths) :
                 \A n \in (Len(m[j].pr) + 1)..(Len(paths[k]) - 1) :
                    StrictlyBelow(paths[k], m[j].pr)
                    => \E i \in 1..(j - 1) : m[i].pr = Take(paths[k], n)
            /\ \A i, j \in 1..Len(m) :
                 (i < j /\ m[i].pr # <<>> /\ Take(m[i].pr, Len(m[i].pr) - 1) = m[j].pr)
                 => \E n \in 1..Len(m[j].group) : m[j].group[n].prefix = m[i].pr
            /\ (frame.pc = "done" /\ Returned(ret))
               => /\ m[Len(m)].pr = cp
                  /\ IsShare(ret.val)
                  /\ ret.val.prefix = cp

C23_Witness ==
    /\ Merging
    /\ frame.pc = "done"
    /\ PathsOf(call.shares) = <<<<2, 1>>, <<1, 2, 1>>, <<1, 1>>>>
    /\ [i \in 1..Len(frame.merged) |-> frame.merged[i].pr] = <<<<1, 2>>, <<2>>, <<1>>, <<>>>>
    /\ Returned(ret)
    /\ ret.val.prefix = <<>>

(* C24: for a non-empty collection with no share at the common prefix,     *)
(* every parent group holds a share at the moment it is interpolated, and  *)
(* the call never returns None.                                            *)
C24_NoEmptyGroup ==
    (/\ call.op = "recover_secret"
     /\ frame # NoFrame
     /\ call.shares # <<>>
     /\ \A i \in 1..Len(call.shares) :
           call.shares[i].prefix # LongestCommonPrefix(PathsOf(call.shares)))
    => /\ \A j \in 1..Len(frame.merged) : frame.merged[j].group # <<>>
       /\ frame.pc = "merge" => frame.j <= Len(frame.all_prefixes)
       /\ frame.pc = "done" => /\ frame.merged # <<>>
                               /\ ret # Return(None)

C24_Witness ==
    /\ Merging
    /\ frame.pc = "done"
    /\ PathsOf(call.shares) = <<<<1, 2, 1>>, <<2, 2>>>>
    /\ Len(frame.merged) = 4
    /\ frame.merged[2].pr = <<1>>
    /\ Len(frame.merged[2].group) = 1
    /\ frame.merged[2].group[1].prefix = <<1, 2>>
    /\ Returned(ret)
    /\ IsShare(ret.val)

\* the iteration-by-iteration call ends as recover_secret does
CombineStepsAgree ==
    (call.op = "recover_secret" /\ frame # NoFrame /\ frame.pc = "done") =>
        ret = recover_secret(call.shares, p)

(* C25: with rand_indices given, at or above p included, no share of a   *)
(* returned pool has an index congruent to 0 mod p and no two shares with  *)
(* the same parent prefix have indices congruent to each other mod p.      *)
C25_IndicesDistinctModP ==
    (/\ call.op = "generate_pool"
     /\ ~call.rand_indices.none
     /\ Returned(pool))
    => /\ \A i \in 1..Len(pool.val) : Index(pool.val[i]) % p # 0
       /\ \A i, j \in 1..Len(pool.val) :
            (i # j /\ Parent(pool.val[i]) = Parent(pool.val[j]))
            => Index(pool.val[i]) % p # Index(pool.val[j]) % p

(* C26: lagrange_interpolate returns no value, it raises ValueError, when *)
(* two x-coordinates are distinct integers congruent modulo p, such as 1   *)
(* and p + 1.                                                              *)
C26_CongruentRejected ==
    (/\ call.op = "lagrange_interpolate"
     /\ \E i, j \in 1..Len(call.x_s) :
           /\ call.x_s[i] # call.x_s[j]
           /\ call.x_s[i] % call.modulus = call.x_s[j] % call.modulus)
    => Raised(ret, "ValueError")

C26_Witness ==
    /\ call.op = "lagrange_interpolate"
    /\ call.modulus = 5
    /\ call.x_s = <<6, 1>>
    /\ call.y_s = <<0, 1>>
    /\ Raised(ret, "ValueError")

\* the collection in the order f, a permutation of its positions
Permuted(shares, f) == [i \in 1..Len(shares) |-> shares[f[i]]]

(* C27: when recover_secret returns for a collection with pairwise         *)
(* distinct paths, it returns the same share, path and value, for every    *)
(* permutation of the collection.                                          *)
C27_OrderIndependent ==
    (/\ call.op = "recover_secret"
     /\ ~HasDuplicate(PathsOf(call.shares))
     /\ Returned(ret))
    => \A f \in Permutations(1..Len(call.shares)) :
          recover_secret(Permuted(call.shares, f), p) = ret

C27_Witness ==
    /\ call.op = "recover_secret"
    /\ call.shares = <<Share(1, <<1, 2>>), Share(0, <<2, 1>>), Share(1, <<1, 1>>)>>
    /\ Returned(ret)
    /\ recover_secret(<<Share(1, <<1, 1>>), Share(1, <<1, 2>>), Share(0, <<2, 1>>)>>, p) = ret
    /\ ret.val.prefix = <<>>

\* the positions of the shares whose path does not strictly extend the
\* parent prefix of the target
Outside(val, shares) ==
    {i \in 1..Len(shares) : ~StrictlyBelow(shares[i].prefix, ParentPrefix(val))}

(* C28: the outcome of extend_pool is the same when any of the given       *)
(* shares whose path does not strictly extend the target's parent prefix   *)
(* are taken out of the collection, as long as a share remains.            *)
C28_OnlySubtreeMatters ==
    (call.op = "extend_pool" /\ HasIndex(call.val)) =>
        \A I \in SUBSET Outside(call.val, call.shares) :
            LET kept == Pick(call.shares, (1..Len(call.shares)) \ I, 1)
            IN  kept # <<>> => extend_pool(call.val, kept, p) = ret

C28_Witness ==
    /\ call.op = "extend_pool"
    /\ call.val = TupleTarget(<<1, 3>>)
    /\ call.shares = <<Share(1, <<2, 1>>), Share(0, <<1, 1>>)>>
    /\ Outside(call.val, call.shares) = {1}
    /\ Returned(ret)
    /\ ret = extend_pool(call.val, <<Share(0, <<1, 1>>)>>, p)

====
